---- MODULE Spec2Model ----
(***************************************************************************)
(* Model of the mod compatibility and merge engine of babamodmanager.      *)
(* Texts are TLA+ strings (sequences of characters); a character is a      *)
(* string of length one.  The string primitives of the Rust standard       *)
(* library that the code calls (split, lines, replace, contains, ...) are  *)
(* operators that compute what the library computes.                       *)
(***************************************************************************)
EXTENDS FiniteSets, Integers, Sequences, TLC

(***************************************************************************)
(* Rust string primitives.                                                 *)
(***************************************************************************)
NL == "\n"

Max(a, b) == IF a >= b THEN a ELSE b

Min(a, b) == IF a <= b THEN a ELSE b

Char(s, i) == SubSeq(s, i, i)

\* s[i..] with a 1-based index
From(s, i) == SubSeq(s, i, Len(s))

\* the positions at which pat occurs in s
Occurrences(s, pat) ==
    { i \in 1..(Len(s) - Len(pat) + 1) : SubSeq(s, i, i + Len(pat) - 1) = pat }

\* str::contains
contains(s, pat) == pat = "" \/ Occurrences(s, pat) # {}

\* str::starts_with
starts_with(s, pat) == Len(pat) <= Len(s) /\ SubSeq(s, 1, Len(pat)) = pat

\* str::find, 0 when there is no match
find(s, pat) ==
    LET first(matches) == IF matches = {} THEN 0
                          ELSE CHOOSE i \in matches : \A j \in matches : i <= j
    IN  first(Occurrences(s, pat))

\* str::split for a non-empty pattern: the pieces between the
\* non-overlapping matches, taken left to right; n matches give n+1 pieces
RECURSIVE split(_, _)
split(s, pat) ==
    LET cut(i) == IF i = 0 THEN << s >>
                  ELSE << SubSeq(s, 1, i - 1) >> \o split(From(s, i + Len(pat)), pat)
    IN  cut(find(s, pat))

\* str::lines: split at line breaks, a final empty piece is not a line
lines(s) ==
    LET trim(pieces) == IF pieces[Len(pieces)] = ""
                        THEN SubSeq(pieces, 1, Len(pieces) - 1) ELSE pieces
    IN  trim(split(s, NL))

\* str::replace: every non-overlapping match, left to right; an empty
\* pattern matches before every character and at the end
RECURSIVE replace(_, _, _)
replace(s, pat, to) ==
    IF pat = "" THEN
        IF s = "" THEN to ELSE to \o Char(s, 1) \o replace(From(s, 2), pat, to)
    ELSE LET cut(i) == IF i = 0 THEN s
                       ELSE SubSeq(s, 1, i - 1) \o to
                            \o replace(From(s, i + Len(pat)), pat, to)
         IN  cut(find(s, pat))

\* concatenation of a sequence of strings (Iterator::fold with push_str)
RECURSIVE concat_all(_)
concat_all(ss) == IF ss = << >> THEN "" ELSE Head(ss) \o concat_all(Tail(ss))

\* the elements of a sequence
Range(f) == { f[i] : i \in DOMAIN f }

(***************************************************************************)
(* mods/mod.rs, mods/luafuncdef.rs, mods/luafunction.rs: the extractor.    *)
(***************************************************************************)
\* the names of data/babafuncs.txt the model works with
baba_function_names == { "init", "update" }

\* Result values
Ok(v) == [ok |-> TRUE, val |-> v]

Err(e) == [ok |-> FALSE, err |-> e]

concat_strings(left, right) == left \o NL \o right

\* impl FromStr for LuaFuncDef
LuaFuncDef_from_str(line) ==
    IF ~starts_with(line, "function") THEN Err("NotALuaFunction")
    ELSE LET named(name) ==
                 Ok([name |-> name, is_baba_native |-> name \in baba_function_names])
             of(words) == IF Len(words) < 2 THEN Err("NotALuaFunction")
                          ELSE named(split(words[2], "(")[1])
         IN  of(split(line, " "))

\* the rewrite of one line `x = function(args)` into `function x(args)`;
\* a line the rewrite gives up on contributes nothing
RewriteLine(line) ==
    LET from(name, rest, p) == IF p = 0 THEN "" ELSE "function " \o name \o From(rest, p)
        args(name, rest) == from(name, rest, find(rest, "("))
        rewrite(words, skip) ==
            IF Len(words) < 1 + skip THEN ""
            ELSE args(words[1 + skip], concat_all(SubSeq(words, 3 + skip, Len(words))))
        of(words) == rewrite(words, IF words[1] = "local" THEN 1 ELSE 0)
    IN  of(split(line, " "))

\* impl FromStr for LuaFunction
LuaFunction_from_str(code) ==
    LET new_code(ls) == concat_all([ i \in 1..Len(ls) |->
                            IF contains(ls[i], "=") /\ contains(ls[i], "function")
                            THEN RewriteLine(ls[i]) ELSE ls[i] ])
        of(function) == IF ~function.ok THEN function
                        ELSE Ok([definition |-> function.val, code |-> new_code(lines(code))])
    IN  of(LuaFuncDef_from_str(code))

\* the fragment of one piece of the split: cut at the first flush-left
\* `end`, `function` put back in front and `end` at the back
Reassemble(piece) ==
    concat_strings(concat_strings("function", split(piece, "\nend")[1]), "\nend")

RECURSIVE KeepOk(_)
KeepOk(rs) ==
    IF rs = << >> THEN << >>
    ELSE (IF Head(rs).ok THEN << Head(rs).val >> ELSE << >>) \o KeepOk(Tail(rs))

code_to_funcs(file) ==
    LET of(pieces) ==
            KeepOk([ i \in 1..Len(pieces) |-> LuaFunction_from_str(Reassemble(pieces[i])) ])
    IN  of(split(file, "function"))

functions_from_string(str) ==
    LET of(ls) == { r.val : r \in { q \in { LuaFuncDef_from_str(ls[i]) : i \in 1..Len(ls) } : q.ok } }
    IN  of(lines(str))

\* LuaFunction::from_definition_and_code: the first function with the definition
from_definition_and_code(definition, code) ==
    LET first(functions, hits) ==
            IF hits = {} THEN Err("None")
            ELSE Ok(functions[CHOOSE i \in hits : \A j \in hits : i <= j])
        of(functions) ==
            first(functions, { i \in 1..Len(functions) : functions[i].definition = definition })
    IN  of(code_to_funcs(code))

(***************************************************************************)
(* files/luafile.rs: the script model.                                     *)
(***************************************************************************)
\* the alias a line records: `local` removed, the text before the first
\* `=`, spaces removed
AliasOf(line) == replace(split(replace(line, "local", ""), "=")[1], " ", "")

\* one pass of the inner loop: HashMap::insert for every built-in name the
\* line contains, unless the line contains `function`
InsertLine(map, line) ==
    LET insert(hit) ==
            [ k \in (DOMAIN map) \cup hit |-> IF k \in hit THEN AliasOf(line) ELSE map[k] ]
    IN  insert({ name \in baba_function_names :
                    contains(line, name) /\ ~contains(line, "function") })

RECURSIVE InsertLines(_, _)
InsertLines(map, ls) ==
    IF ls = << >> THEN map ELSE InsertLines(InsertLine(map, Head(ls)), Tail(ls))

EmptyMap == [ k \in {} |-> "" ]

\* impl FromStr for LuaFile
LuaFile_from_str(s) ==
    [ functions |-> code_to_funcs(s),
      renamed_functions |-> InsertLines(EmptyMap, lines(s)),
      code |-> s ]

\* LuaFile::definitions
definitions(file) == { file.functions[i].definition : i \in DOMAIN file.functions }

\* LuaFile::function_uses_injection_str
function_uses_injection_str(file, func_name) ==
    \/ func_name \in DOMAIN file.renamed_functions
    \/ \E k \in DOMAIN file.renamed_functions : file.renamed_functions[k] = func_name

\* LuaFile::function_uses_injection
function_uses_injection(file, func) == function_uses_injection_str(file, func.name)

\* injection_data that also answers for a name held as an alias
injection_data_by_value(file, func) ==
    IF function_uses_injection(file, func)
    THEN Ok(IF func.name \in DOMAIN file.renamed_functions
            THEN file.renamed_functions[func.name] ELSE func.name)
    ELSE Err("None")

\* LuaFile::injection_data
injection_data(file, func) ==
    IF func.name \in DOMAIN file.renamed_functions
    THEN Ok(file.renamed_functions[func.name]) ELSE Err("None")

(***************************************************************************)
(* The diff/patch library as merge.rs uses it (DiffMatchPatch in Compat    *)
(* mode, default settings).  A diff is a sequence of [op, text].           *)
(***************************************************************************)
Diff(op, text) == [op |-> op, text |-> text]

CommonPrefix(a, b) ==
    CHOOSE k \in 0..Min(Len(a), Len(b)) :
        /\ SubSeq(a, 1, k) = SubSeq(b, 1, k)
        /\ (k < Min(Len(a), Len(b)) => Char(a, k + 1) # Char(b, k + 1))

CommonSuffix(a, b) ==
    CHOOSE k \in 0..Min(Len(a), Len(b)) :
        /\ From(a, Len(a) - k + 1) = From(b, Len(b) - k + 1)
        /\ (k < Min(Len(a), Len(b)) => Char(a, Len(a) - k) # Char(b, Len(b) - k))

\* one row of the table of longest common subsequences: row[j] is the
\* length for a[i..] and b[j..], computed from the row of a[i+1..]
RECURSIVE LcsRow(_, _, _, _, _, _)
LcsRow(a, b, i, below, j, acc) ==
    IF j = 0 THEN acc
    ELSE LET \* the test has the cell computed before the next one is
             next(cell) ==
                 IF cell >= 0 THEN LcsRow(a, b, i, below, j - 1, << cell >> \o acc) ELSE acc
         IN  next(IF Char(a, i) = Char(b, j) THEN below[j + 1] + 1
                  ELSE Max(below[j], acc[1]))

\* the table: LcsTable(a, b)[i][j] is the length for a[i..] and b[j..]
RECURSIVE LcsRows(_, _, _, _)
LcsRows(a, b, i, acc) ==
    IF i = 0 THEN acc
    ELSE LET next(row) ==
                 IF Len(row) > 0 THEN LcsRows(a, b, i - 1, << row >> \o acc) ELSE acc
         IN  next(LcsRow(a, b, i, acc[1], Len(b), << 0 >>))

LcsTable(a, b) == LcsRows(a, b, Len(a), << [ j \in 1..(Len(b) + 1) |-> 0 ] >>)

\* a shortest edit script from a[i..] to b[j..], one character per entry
RECURSIVE EditScript(_, _, _, _, _)
EditScript(a, b, t, i, j) ==
    IF i > Len(a) /\ j > Len(b) THEN << >>
    ELSE IF i > Len(a) THEN << Diff("Insert", From(b, j)) >>
    ELSE IF j > Len(b) THEN << Diff("Delete", From(a, i)) >>
    ELSE IF Char(a, i) = Char(b, j)
         THEN << Diff("Equal", Char(a, i)) >> \o EditScript(a, b, t, i + 1, j + 1)
    ELSE IF t[i + 1][j] >= t[i][j + 1]
         THEN << Diff("Delete", Char(a, i)) >> \o EditScript(a, b, t, i + 1, j)
         ELSE << Diff("Insert", Char(b, j)) >> \o EditScript(a, b, t, i, j + 1)

\* bisect: the middle-snake search, which returns a shortest edit script
Bisect(a, b) == EditScript(a, b, LcsTable(a, b), 1, 1)

\* all text of one operation in a run of diffs
RECURSIVE TextOf(_, _)
TextOf(diffs, op) ==
    IF diffs = << >> THEN ""
    ELSE (IF Head(diffs).op = op THEN Head(diffs).text ELSE "") \o TextOf(Tail(diffs), op)

\* length of the leading run of edits (inserts and deletes)
RECURSIVE EditRun(_)
EditRun(diffs) ==
    IF diffs = << >> \/ Head(diffs).op = "Equal" THEN 0 ELSE 1 + EditRun(Tail(diffs))

RECURSIVE EqualRun(_)
EqualRun(diffs) ==
    IF diffs = << >> \/ Head(diffs).op # "Equal" THEN 0 ELSE 1 + EqualRun(Tail(diffs))

NonEmpty(d) == IF d.text = "" THEN << >> ELSE << d >>

\* cleanup_merge: adjacent entries of one operation are merged, an edit
\* run becomes one delete followed by one insert with their common affixes
\* turned into equalities, empty entries are dropped
RECURSIVE cleanup_merge(_)
cleanup_merge(diffs) ==
    IF diffs = << >> THEN << >>
    ELSE IF Head(diffs).op = "Equal" THEN
        LET joined(text, rest) ==
                IF rest # << >> /\ Head(rest).op = "Equal"
                THEN << Diff("Equal", text \o Head(rest).text) >> \o Tail(rest)
                ELSE NonEmpty(Diff("Equal", text)) \o rest
            run(n) == joined(TextOf(SubSeq(diffs, 1, n), "Equal"),
                             cleanup_merge(SubSeq(diffs, n + 1, Len(diffs))))
        IN  run(EqualRun(diffs))
    ELSE
        LET factored(n, del, p, del1, ins1, q) ==
                NonEmpty(Diff("Equal", SubSeq(del, 1, p)))
                \o NonEmpty(Diff("Delete", SubSeq(del1, 1, Len(del1) - q)))
                \o NonEmpty(Diff("Insert", SubSeq(ins1, 1, Len(ins1) - q)))
                \o cleanup_merge(<< Diff("Equal", From(del1, Len(del1) - q + 1)) >>
                                  \o SubSeq(diffs, n + 1, Len(diffs)))
            suffixed(n, del, p, del1, ins1) ==
                factored(n, del, p, del1, ins1, CommonSuffix(del1, ins1))
            prefixed(n, del, ins, p) ==
                suffixed(n, del, p, From(del, p + 1), From(ins, p + 1))
            texts(n, del, ins) == prefixed(n, del, ins, CommonPrefix(del, ins))
            run(n) == texts(n, TextOf(SubSeq(diffs, 1, n), "Delete"),
                            TextOf(SubSeq(diffs, 1, n), "Insert"))
        IN  run(EditRun(diffs))

\* half_match_i: the longest common substring of long and short around the
\* seed long[i .. i + len/4), as << long_a, short_a, common, long_b, short_b >>
HalfMatchI(long, short, i) ==
    LET \* a candidate: the match at j with its common prefix and suffix
        cand(j) == [ at  |-> j,
                     pre |-> CommonPrefix(From(long, i + 1), From(short, j)),
                     suf |-> CommonSuffix(SubSeq(long, 1, i), SubSeq(short, 1, j - 1)) ]
        parts(best) ==
            IF (best.pre + best.suf) * 2 < Len(long) THEN << >>
            ELSE << SubSeq(long, 1, i - best.suf),
                    SubSeq(short, 1, best.at - 1 - best.suf),
                    SubSeq(short, best.at - best.suf, best.at - 1 + best.pre),
                    From(long, i + best.pre + 1),
                    From(short, best.at + best.pre) >>
        longest(cands) ==
            IF cands = {} THEN << >>
            ELSE parts(CHOOSE c \in cands : \A d \in cands :
                          \/ c.pre + c.suf > d.pre + d.suf
                          \/ (c.pre + c.suf = d.pre + d.suf /\ c.at <= d.at))
    IN  longest({ cand(j) : j \in Occurrences(short, SubSeq(long, i + 1, i + (Len(long) \div 4))) })

\* half_match: << old_a, new_a, common, old_b, new_b >> or << >>
half_match(old, new) ==
    LET ordered(hm) ==
            IF hm = << >> THEN << >>
            ELSE IF Len(old) > Len(new) THEN hm
            ELSE << hm[2], hm[1], hm[3], hm[5], hm[4] >>
        better(hm1, hm2) ==
            ordered(IF hm1 = << >> THEN hm2
                    ELSE IF hm2 = << >> THEN hm1
                    ELSE IF Len(hm1[3]) > Len(hm2[3]) THEN hm1 ELSE hm2)
        halves(long, short) ==
            IF Len(long) < 4 \/ Len(short) * 2 < Len(long) THEN << >>
            ELSE better(HalfMatchI(long, short, (Len(long) + 3) \div 4),
                        HalfMatchI(long, short, (Len(long) + 1) \div 2))
    IN  halves(IF Len(old) > Len(new) THEN old ELSE new,
               IF Len(old) > Len(new) THEN new ELSE old)

RECURSIVE diff_main(_, _)
\* compute: the diff of two texts that share no prefix and no suffix
diff_compute(old, new) ==
    LET halved(hm) ==
            IF hm # << >> THEN diff_main(hm[1], hm[2]) \o << Diff("Equal", hm[3]) >>
                               \o diff_main(hm[4], hm[5])
            ELSE Bisect(old, new)
        inside(long, short, op, i) ==
            IF i # 0 THEN << Diff(op, SubSeq(long, 1, i - 1)), Diff("Equal", short),
                             Diff(op, From(long, i + Len(short))) >>
            ELSE IF Len(short) = 1 THEN << Diff("Delete", old), Diff("Insert", new) >>
            ELSE halved(half_match(old, new))
        sized(long, short, op) == inside(long, short, op, find(long, short))
    IN  IF old = "" THEN << Diff("Insert", new) >>
        ELSE IF new = "" THEN << Diff("Delete", old) >>
        ELSE sized(IF Len(old) > Len(new) THEN old ELSE new,
                   IF Len(old) > Len(new) THEN new ELSE old,
                   IF Len(old) > Len(new) THEN "Delete" ELSE "Insert")

\* DiffMatchPatch::diff_main
diff_main(old, new) ==
    IF old = new THEN NonEmpty(Diff("Equal", old))
    ELSE LET trimmed(p, old1, new1, q) ==
                 cleanup_merge(
                     << Diff("Equal", SubSeq(old, 1, p)) >>
                     \o diff_compute(SubSeq(old1, 1, Len(old1) - q),
                                     SubSeq(new1, 1, Len(new1) - q))
                     \o << Diff("Equal", From(old1, Len(old1) - q + 1)) >>)
             suffixed(p, old1, new1) == trimmed(p, old1, new1, CommonSuffix(old1, new1))
             prefixed(p) == suffixed(p, From(old, p + 1), From(new, p + 1))
         IN  prefixed(CommonPrefix(old, new))

HasDelete(diffs) == \E i \in DOMAIN diffs : diffs[i].op = "Delete"

\* Iterator::filter(|diff| diff.op() != Ops::Delete)
RECURSIVE StripDeletes(_)
StripDeletes(diffs) ==
    IF diffs = << >> THEN << >>
    ELSE (IF Head(diffs).op = "Delete" THEN << >> ELSE << Head(diffs) >>)
         \o StripDeletes(Tail(diffs))

\* patch_make on (text, diffs) followed by patch_apply on the same text:
\* every patch is cut out of the text at the offset the diffs count up to,
\* so it is found where it is expected and applies exactly; the result is
\* the text with each insert put in at the offset reached by the entries
\* before it (an equality and an insert both advance the offset)
RECURSIVE PatchText(_, _, _)
PatchText(text, diffs, at) ==
    IF diffs = << >> THEN text
    ELSE IF Head(diffs).op = "Insert"
         THEN PatchText(SubSeq(text, 1, Min(at, Len(text))) \o Head(diffs).text
                            \o From(text, Min(at, Len(text)) + 1),
                        Tail(diffs), at + Len(Head(diffs).text))
         ELSE PatchText(text, Tail(diffs), at + Len(Head(diffs).text))

\* one flag per insert: the patch applied
patch_apply(text, diffs) ==
    [ text  |-> PatchText(text, diffs, 0),
      flags |-> [ i \in 1..Cardinality({ j \in DOMAIN diffs : diffs[j].op = "Insert" }) |-> TRUE ] ]

(***************************************************************************)
(* merge.rs: the merge engine.                                             *)
(***************************************************************************)
LEFT_HAND_SUFFIX == "_left"

\* the right hand suffix taken to be the left hand one
RIGHT_HAND_SUFFIX_as_left == "_left"

RIGHT_HAND_SUFFIX == "_right"

\* the end of merge_functions_via_dmp that returns the text whatever the flags
check_flags_ignored(applied) == LuaFunction_from_str(applied.text)

\* the end of merge_functions_via_dmp: the loop over the flags of
\* patch_apply, then the parse of the patched text
check_flags(applied) ==
    IF \E i \in DOMAIN applied.flags : ~applied.flags[i]
    THEN Err("IncompletePatching")
    ELSE LuaFunction_from_str(applied.text)

\* merge_functions_via_dmp
merge_functions_via_dmp(left, right) ==
    check_flags(patch_apply(left.code, StripDeletes(diff_main(left.code, right.code))))

\* merge_override_functions with the deletion check on the left diff only
merge_override_functions_left_only(left, right, baba_funcs) ==
    LET against(original) ==
            IF HasDelete(diff_main(original.code, left.code)) THEN Err("CodeRemoval")
            ELSE merge_functions_via_dmp(left, right)
        found(hits) ==
            IF hits = {} THEN Err("NotABabaFunction")
            ELSE against(baba_funcs[CHOOSE i \in hits : \A j \in hits : i <= j])
    IN  found({ i \in DOMAIN baba_funcs : baba_funcs[i].definition = left.definition })

\* merge_override_functions with a missing original taken to be an empty one
merge_override_functions_lenient(left, right, baba_funcs) ==
    LET against(original) ==
            IF HasDelete(diff_main(original.code, left.code)
                         \o diff_main(original.code, right.code))
            THEN Err("CodeRemoval")
            ELSE merge_functions_via_dmp(left, right)
        found(hits) ==
            IF hits = {} THEN against([ definition |-> left.definition, code |-> "" ])
            ELSE against(baba_funcs[CHOOSE i \in hits : \A j \in hits : i <= j])
    IN  found({ i \in DOMAIN baba_funcs : baba_funcs[i].definition = left.definition })

\* merge_override_functions
merge_override_functions(left, right, baba_funcs) ==
    LET against(original) ==
            IF HasDelete(diff_main(original.code, left.code)
                         \o diff_main(original.code, right.code))
            THEN Err("CodeRemoval")
            ELSE merge_functions_via_dmp(left, right)
        found(hits) ==
            IF hits = {} THEN Err("NotABabaFunction")
            ELSE against(baba_funcs[CHOOSE i \in hits : \A j \in hits : i <= j])
    IN  found({ i \in DOMAIN baba_funcs : baba_funcs[i].definition = left.definition })

\* merge_injected_functions
merge_injected_functions(left, right) == merge_functions_via_dmp(left, right)

\* the state of the loop of merge_files: the two working texts, the merged
\* section, the error returned so far ("" for none) and, as a record of
\* what was done, the action taken for every colliding name and the
\* fragments pushed onto the merged section
LoopStart(left_file, right_file) ==
    [ left |-> left_file.code, right |-> right_file.code, merged |-> "",
      err |-> "", log |-> << >>, fragments |-> << >> ]

Logged(acc, func, action) == Append(acc.log, [name |-> func.name, action |-> action])

\* the body of the loop of merge_files for one colliding definition
LoopBody(left_file, right_file, baba_funcs, acc, func) ==
    LET merged(cut, new_func, action) ==
            IF ~new_func.ok
            THEN [ cut EXCEPT !.err = new_func.err, !.log = Logged(acc, func, action) ]
            ELSE [ cut EXCEPT !.merged = cut.merged \o NL \o new_func.val.code \o NL,
                              !.log = Logged(acc, func, action),
                              !.fragments = Append(acc.fragments, new_func.val.code) ]
        mixed(cut, injected, not_injected, rename) ==
            IF ~rename.ok
            THEN [ cut EXCEPT !.merged = cut.merged \o not_injected.code,
                              !.err = "RenameError",
                              !.log = Logged(acc, func, "mixed") ]
            ELSE [ cut EXCEPT !.merged = cut.merged \o not_injected.code \o NL
                                  \o "local " \o rename.val \o " = " \o func.name
                                  \o NL \o injected.code,
                              !.log = Logged(acc, func, "mixed"),
                              !.fragments = Append(acc.fragments,
                                  not_injected.code \o NL
                                  \o "local " \o rename.val \o " = " \o func.name
                                  \o NL \o injected.code) ]
        resolve(cut, left_func, right_func, left_inj, right_inj) ==
            IF left_inj # right_inj
            THEN mixed(cut,
                       IF left_inj THEN left_func ELSE right_func,
                       IF left_inj THEN right_func ELSE left_func,
                       injection_data(IF left_inj THEN left_file ELSE right_file, func))
            ELSE merged(cut,
                        IF left_inj
                        THEN merge_injected_functions(left_func, right_func)
                        ELSE merge_override_functions(left_func, right_func, baba_funcs),
                        IF left_inj THEN "injection" ELSE "override")
        removed(left_func, right_func) ==
            resolve([ acc EXCEPT !.left  = replace(acc.left, left_func.code, ""),
                                 !.right = replace(acc.right, right_func.code, "") ],
                    left_func, right_func,
                    function_uses_injection(left_file, left_func.definition),
                    function_uses_injection(right_file, right_func.definition))
        found(lhs, rhs) ==
            IF ~lhs.ok \/ ~rhs.ok THEN [ acc EXCEPT !.log = Logged(acc, func, "skip") ]
            ELSE removed(lhs.val, rhs.val)
    IN  IF acc.err # "" THEN acc
        ELSE IF ~func.is_baba_native THEN
            [ acc EXCEPT !.left  = replace(acc.left, func.name, func.name \o LEFT_HAND_SUFFIX),
                         !.right = replace(acc.right, func.name, func.name \o RIGHT_HAND_SUFFIX),
                         !.log   = Logged(acc, func, "rename") ]
        ELSE found(from_definition_and_code(func, acc.left),
                   from_definition_and_code(func, acc.right))

RECURSIVE Loop(_, _, _, _, _)
Loop(left_file, right_file, baba_funcs, acc, order) ==
    IF order = << >> THEN acc
    ELSE Loop(left_file, right_file, baba_funcs,
              LoopBody(left_file, right_file, baba_funcs, acc, Head(order)), Tail(order))

\* the loop with the double line break replaced by nothing
RECURSIVE CollapseBreaks_dropping(_)
CollapseBreaks_dropping(result) ==
    IF contains(result, "\n\n") THEN CollapseBreaks_dropping(replace(result, "\n\n", ""))
    ELSE result

\* while result.contains("\n\n") { result = result.replace("\n\n", "\n") }
RECURSIVE CollapseBreaks(_)
CollapseBreaks(result) ==
    IF contains(result, "\n\n") THEN CollapseBreaks(replace(result, "\n\n", "\n")) ELSE result

\* the orders in which a HashSet iterator can yield the elements of a set
Orders(set) ==
    { order \in [ 1..Cardinality(set) -> set ] :
        \A i, j \in DOMAIN order : i # j => order[i] # order[j] }

\* merge_files, the intersection being iterated in the given order; the
\* result carries the loop's final state next to the Result of the code
merge_files(left_file, right_file, baba_funcs, order) ==
    LET finish(acc) ==
            IF acc.err # "" THEN [ ok |-> FALSE, err |-> acc.err, loop |-> acc ]
            ELSE [ ok |-> TRUE,
                   val |-> LuaFile_from_str(CollapseBreaks(
                               concat_strings(acc.left, concat_strings(acc.merged, acc.right)))),
                   loop |-> acc ]
    IN  finish(Loop(left_file, right_file, baba_funcs, LoopStart(left_file, right_file), order))

(***************************************************************************)
(* mods/babamod.rs, mods/config.rs: the mod descriptor.  A disk is a       *)
(* record of configs (the Config each readable Config.json parses to, by   *)
(* path), texts (the content of each readable file, by path) and dirs      *)
(* (the file names in each readable directory, by path).                   *)
(***************************************************************************)
CONFIG_FILE_NAME == "Config.json"

\* Path::join
join(path, name) == path \o "/" \o name

\* the directory a path with `..` components names
RECURSIVE Resolve(_, _)
Resolve(done, parts) ==
    IF parts = << >> THEN done
    ELSE IF Head(parts) = ".." THEN Resolve(SubSeq(done, 1, Len(done) - 1), Tail(parts))
    ELSE Resolve(Append(done, Head(parts)), Tail(parts))

RECURSIVE JoinPath(_)
JoinPath(parts) ==
    IF parts = << >> THEN ""
    ELSE IF Len(parts) = 1 THEN parts[1]
    ELSE parts[1] \o "/" \o JoinPath(Tail(parts))

\* Path::read_dir: the names in the directory, if it can be read
read_dir(disk, path) ==
    LET dir == JoinPath(Resolve(<< >>, split(path, "/"))) IN
    IF dir \in DOMAIN disk.dirs THEN Ok(disk.dirs[dir]) ELSE Err("io")

\* fs::read_to_string
read_to_string(disk, path) ==
    IF path \in DOMAIN disk.texts THEN Ok(disk.texts[path]) ELSE Err("io")

\* Config::new
Config_new(disk, path) ==
    IF path \in DOMAIN disk.configs THEN Ok(disk.configs[path]) ELSE Err("io")

\* is_lua_file: the extension of the last component is `lua`
is_lua_file(path) ==
    LET parts == split(path, "/")
        words == split(parts[Len(parts)], ".")
    IN  Len(words) >= 2 /\ words[Len(words)] = "lua" /\ words[1] # ""

\* BabaMod::new: the manifest is read once, here
BabaMod_new(disk, path) ==
    [ path |-> path, config |-> Config_new(disk, join(path, CONFIG_FILE_NAME)) ]

\* BabaMod::sprites_folder
sprites_folder(mod) == join(mod.path, "../../Sprites")

\* BabaMod::defined_sprites
defined_sprites(mod) == IF mod.config.ok THEN Range(mod.config.val.sprites) ELSE {}

\* BabaMod::all_relevant_files, as the set of the paths of the vector
all_relevant_files(disk, mod) ==
    IF ~mod.config.ok THEN Ok({ mod.path })
    ELSE LET sprites == read_dir(disk, sprites_folder(mod)) IN
         IF ~sprites.ok THEN sprites
         ELSE Ok({ mod.path } \cup Range(mod.config.val.files)
                  \cup { join(sprites_folder(mod), sprite) :
                           sprite \in { n \in sprites.val :
                               \E held_name \in defined_sprites(mod) : contains(n, held_name) } })

\* BabaMod::defined_function_definitions
defined_function_definitions(disk, mod) ==
    LET files == all_relevant_files(disk, mod)
        paths == IF files.ok THEN { f \in files.val : is_lua_file(f) } ELSE {}
    IN  UNION { functions_from_string(read_to_string(disk, f).val) :
                  f \in { g \in paths : read_to_string(disk, g).ok } }

\* BabaMod::sprites_by_name
sprites_by_name(disk, mod) == read_dir(disk, sprites_folder(mod))

unwrap_or_default(res) == IF res.ok THEN res.val ELSE {}

\* BabaMod::is_compatible_with
is_compatible_with(disk, this, other) ==
    /\ defined_function_definitions(disk, this)
           \cap defined_function_definitions(disk, other) = {}
    /\ unwrap_or_default(sprites_by_name(disk, this))
           \cap unwrap_or_default(sprites_by_name(disk, other)) = {}

\* config_from_two_mods: the file list and the sprite list of the manifest
\* of the merged mod
config_from_two_mods(left, right) ==
    [ files   |-> << "[Intentionally left without files]" >>,
      sprites |-> << "[Intentionally left without names]" >> ]

\* a call that panicked: control never comes back to the caller
Panicked(message) == [ kind |-> "panicked", message |-> message ]

\* merge_mods: the manifest is built, then todo!() panics
merge_mods(left, right, funcs) ==
    LET after(config) == Panicked("not yet implemented")
    IN  after(config_from_two_mods(left, right))

\* BabaMod::merge_with
merge_with(this, other, funcs) == merge_mods(this, other, funcs)

(***************************************************************************)
(* levelpack/mod.rs: the fields of world_data.txt.                         *)
(***************************************************************************)
\* str::rsplit_once: the cut is at the last match
split_once_last(s, pat) ==
    LET cut(matches) ==
            IF matches = {} THEN Err("None")
            ELSE LET at(i) == Ok(<< SubSeq(s, 1, i - 1), From(s, i + Len(pat)) >>)
                 IN  at(CHOOSE i \in matches : \A j \in matches : i >= j)
    IN  cut(Occurrences(s, pat))

\* str::split_once: the text before and the text after the first match
split_once(s, pat) ==
    LET cut(i) == IF i = 0 THEN Err("None")
                  ELSE Ok(<< SubSeq(s, 1, i - 1), From(s, i + Len(pat)) >>)
    IN  cut(find(s, pat))

Digits == "0123456789"

\* the number a text of decimal digits writes
RECURSIVE DecimalValue(_)
DecimalValue(s) ==
    IF s = "" THEN 0
    ELSE 10 * DecimalValue(SubSeq(s, 1, Len(s) - 1)) + (find(Digits, Char(s, Len(s))) - 1)

\* usize::from_str: an optional `+`, then one decimal digit or more (the
\* texts of the model write numbers far below usize::MAX)
parse_usize(s) ==
    LET digits(body) ==
            IF body = "" \/ \E i \in 1..Len(body) : ~contains(Digits, Char(body, i))
            THEN Err("ParseIntError")
            ELSE Ok(DecimalValue(body))
    IN  digits(IF starts_with(s, "+") THEN From(s, 2) ELSE s)

\* str::parse::<T> for the types fetch_field is called with; String::from_str
\* takes every text as it is
parse(T, s) == IF T = "String" THEN Ok(s) ELSE parse_usize(s)

\* fetch_field::<T>
fetch_field(T, field_name, line) ==
    LET parsed(res) ==
            IF res.ok THEN res ELSE Err("StringParsingError(Malformed world_data.txt)")
        checked(halves) ==
            IF ~halves.ok THEN Err("FieldParsingError(true)")
            ELSE IF halves.val[1] # field_name THEN Err("FieldParsingError(false)")
            ELSE parsed(parse(T, halves.val[2]))
    IN  checked(split_once(line, "="))

(***************************************************************************)
(* files/babafiles.rs: the level packs of the game folder.  The folder is  *)
(* a record: its root path, whether Data/Worlds exists and can be read,    *)
(* and the entries of Data/Worlds in the order read_dir yields them, each  *)
(* with its name and whether it holds a world_data.txt.                    *)
(***************************************************************************)
RESERVED_PACK_NAMES == << "baba", "debug", "museum", "new_adv", "levels" >>

\* PathBuf::join: an absolute path replaces the base
PathBuf_join(base, path) == IF starts_with(path, "/") THEN path ELSE join(base, path)

\* Path::ends_with: the last components of the path are those of the child
ends_with(path, child) ==
    LET tail(have, want) ==
            /\ Len(want) <= Len(have)
            /\ SubSeq(have, Len(have) - Len(want) + 1, Len(have)) = want
    IN  tail(split(path, "/"), split(child, "/"))

\* BabaFiles::levelpacks_dir
levelpacks_dir(files) ==
    IF files.exists THEN Ok(join(join(files.root, "Data"), "Worlds"))
    ELSE Err("LevelpackFolderNotFound")

\* DirEntry::path of the entries of Data/Worlds
entry_paths(files) ==
    [ i \in DOMAIN files.entries |->
        join(join(join(files.root, "Data"), "Worlds"), files.entries[i].name) ]

\* LevelpackRepr::new: a level pack is made of a folder that holds the
\* world metadata file
LevelpackRepr_new(files, path) ==
    IF \E i \in DOMAIN files.entries :
          entry_paths(files)[i] = path /\ files.entries[i].world_data
    THEN Ok([ path |-> path ])
    ELSE Err("LevelpackDoesNotExist")

\* the loop of levelpacks over the entries left to visit
RECURSIVE levelpacks_loop(_, _, _, _)
levelpacks_loop(files, respect, entries, result) ==
    IF entries = << >> THEN Ok(result)
    ELSE LET made(pack) ==
                 levelpacks_loop(files, respect, Tail(entries),
                                 IF pack.ok THEN Append(result, pack.val) ELSE result)
             visit(path) ==
                 IF respect /\ \E r \in DOMAIN RESERVED_PACK_NAMES :
                                   ends_with(path, RESERVED_PACK_NAMES[r])
                 THEN levelpacks_loop(files, respect, Tail(entries), result)
                 ELSE made(LevelpackRepr_new(files, path))
             joined(dir) == IF dir.ok THEN visit(PathBuf_join(dir.val, Head(entries)))
                            ELSE dir
         IN  joined(levelpacks_dir(files))

\* BabaFiles::levelpacks
levelpacks(files, respect) ==
    IF ~levelpacks_dir(files).ok THEN levelpacks_dir(files)
    ELSE IF ~files.readable THEN Err("io")
    ELSE IF files.entries = << >> THEN Err("NoLevelpacksFound")
    ELSE levelpacks_loop(files, respect, entry_paths(files), << >>)

(***************************************************************************)
(* The inputs: scripts put together from a small stock of script parts.    *)
(***************************************************************************)
\* a script holds at most this many parts
MaxParts == 2

LeftParts ==
    << "function init(a)\nx = 1\nend",
       "local oldupdate = update\nfunction update()\noldupdate()\nend",
       "function helper()\nend\nfunction go()\nhelper()\nend",
       "function it()\n\nbar()\nend",
       "function help()\nend",
       "x = function()\nreturn 1\nend",
       "function update()\nbar()\nend",
       "in it = update\nfunction init(a)\nend" >>

RightParts ==
    << "function init(a)\nbar()\nend",
       "function update()\nfoo()\nend",
       "function helper()\nfoo()\nend",
       "function it()\nend",
       "function help()\nend",
       "local oldinit = init\nfunction init()\noldinit()\nend",
       "local old = update\nfunction update()\nold()\nend" >>

\* the parts with an index in S, in the order of the stock, one per line
RECURSIVE JoinParts(_, _, _)
JoinParts(parts, S, i) ==
    IF i > Len(parts) THEN ""
    ELSE LET rest == JoinParts(parts, S, i + 1) IN
         IF i \notin S THEN rest
         ELSE IF rest = "" THEN parts[i] ELSE parts[i] \o NL \o rest

ScriptsOf(parts) ==
    { JoinParts(parts, S, 1) : S \in { T \in SUBSET (DOMAIN parts) : Cardinality(T) <= MaxParts } }

LeftScripts == ScriptsOf(LeftParts)

RightScripts == ScriptsOf(RightParts)

\* the built-in corpus: the functions of the game's own scripts
BabaSource == "function init(a)\nend"

BabaFuncs == code_to_funcs(BabaSource)

\* the functions a merge of two functions is tried on: every function of
\* every script, and the originals of the corpus
Funcs == UNION { Range(code_to_funcs(s)) : s \in LeftScripts \cup RightScripts \cup { BabaSource } }

\* the scripts the extractor is tried on
ScenarioSource == "function init(a)\nfoo()\nend"

Sources == LeftScripts \cup RightScripts \cup { ScenarioSource }

\* declarations of one function in the three styles
DeclNames == { "init", "update", "helper", "go" }

DeclArgs == { "", "a", "a, b" }

DeclBodies == { "", "\nfoo()", "\nreturn 1" }

Canonical(d) == "function " \o d.name \o "(" \o d.args \o ")" \o d.body \o "\nend"

Assigned(d) ==
    (IF d.is_local THEN "local " ELSE "") \o d.name \o " = function(" \o d.args \o ")"
        \o d.body \o "\nend"

\* the disks the mod descriptor is tried on: two level packs w1 and w2,
\* the mod moda (a folder, or the single script a.lua) and the mod modb
MapOf(keys, val) == [ k \in keys |-> val ]

Merge2(f, g) == [ k \in (DOMAIN f) \cup (DOMAIN g) |-> IF k \in DOMAIN f THEN f[k] ELSE g[k] ]

ModConfigs ==
    [ files : { << >>, << "main.lua" >>, << "other.lua" >> },
      sprites : { << >>, << "keke" >>, << "baba" >> } ]

DiskTexts ==
    Merge2(MapOf({ "main.lua" }, "function init(a)\nend"),
    Merge2(MapOf({ "other.lua" }, "function helper()\nend"),
           MapOf({ "w1/Lua/a.lua" }, "function helper()\nfoo()\nend")))

SpriteDirs ==
    { Merge2(d1, d2) :
        d1 \in { EmptyMap } \cup { MapOf({ "w1/Sprites" }, names) :
                    names \in { {}, { "keke_0_1.png" }, { "keke_0_1.png", "baba_0_1.png" } } },
        d2 \in { EmptyMap, MapOf({ "w2/Sprites" }, { "baba_0_1.png" }) } }

Disks ==
    { [ configs |-> Merge2(ca, cb), texts |-> DiskTexts, dirs |-> dirs ] :
        ca \in { EmptyMap } \cup { MapOf({ "w1/Lua/moda/Config.json" }, c) : c \in ModConfigs },
        cb \in { MapOf({ "w1/Lua/modb/Config.json", "w2/Lua/modb/Config.json" }, c) :
                    c \in ModConfigs },
        dirs \in SpriteDirs }

(***************************************************************************)
(* State.                                                                  *)
(***************************************************************************)
VARIABLES
    pc,              \* the operation that runs next, "done" after the last
    left_file,       \* merge_files: the left LuaFile
    right_file,      \* merge_files: the right LuaFile
    result,          \* merge_files: the returned Result
    left_func,       \* merge of two functions: the left LuaFunction
    right_func,      \* merge of two functions: the right LuaFunction
    new_func,        \* merge of two functions: the returned Result
    source,          \* extractor: the script text
    functions,       \* extractor: code_to_funcs of the text
    reserialized,    \* extractor: the code of the functions, one per line
    functions_again, \* extractor: code_to_funcs of the reserialized text
    decl,            \* declaration styles: name, args, body, local or not
    by_style,        \* declaration styles: definitions found per style
    disk,            \* mods: the files, manifests and directories on disk
    this_mod,        \* mods: a BabaMod
    other_mod,       \* mods: another BabaMod
    compatible,      \* mods: the answer of is_compatible_with
    applied,         \* patching: the text and the flags patch_apply returned
    functions_defined, \* queries: the answer of defined_function_definitions
    sprites_defined, \* queries: the answer of defined_sprites
    merged,          \* mods: how merge_with ended
    field,           \* fetch_field: the name of the field asked for
    data,            \* fetch_field: the line of world_data.txt
    target,          \* fetch_field: the type T the value is parsed into
    fetched,         \* fetch_field: the returned Result
    game,            \* level packs: the game folder, with its Worlds directory
    respect_reserved_names, \* level packs: the argument of levelpacks
    packs,           \* level packs: the returned Result
    script,          \* script parsing: the text of a script
    parsed,          \* script parsing: the LuaFile parsed from the text
    scanned          \* script parsing: functions_from_string of the text

mergeVars == << left_file, right_file, result >>

funcVars == << left_func, right_func, new_func >>

extractVars == << source, functions, reserialized, functions_again >>

declVars == << decl, by_style >>

modVars == << disk, this_mod, other_mod, compatible >>

patchVars == << applied >>

queryVars == << functions_defined, sprites_defined >>

mergeModVars == << merged >>

fetchVars == << field, data, target, fetched >>

packVars == << game, respect_reserved_names, packs >>

scriptVars == << script, parsed, scanned >>

vars == << pc, mergeVars, funcVars, extractVars, declVars, modVars, patchVars, queryVars, mergeModVars, fetchVars, packVars, scriptVars >>

NoResult == Err("")

NoFunc == [ definition |-> [ name |-> "", is_baba_native |-> FALSE ], code |-> "" ]

NoDecl == [ name |-> "", args |-> "", body |-> "", is_local |-> FALSE ]

NoStyles == [ canonical |-> {}, assigned |-> {} ]

IdleMerge ==
    /\ left_file = LuaFile_from_str("")
    /\ right_file = LuaFile_from_str("")
    /\ result = NoResult

IdleFunc == left_func = NoFunc /\ right_func = NoFunc /\ new_func = NoResult

IdleExtract ==
    source = "" /\ functions = << >> /\ reserialized = "" /\ functions_again = << >>

IdleDecl == decl = NoDecl /\ by_style = NoStyles

NoApplied == [ text |-> "", flags |-> << >> ]

IdlePatch == applied = NoApplied

IdleQuery == functions_defined = {} /\ sprites_defined = {}

NoMerged == [ kind |-> "none" ]

IdleMergeMod == merged = NoMerged

IdleFetch == field = "" /\ data = "" /\ target = "String" /\ fetched = NoResult

IdleScript == script = "" /\ parsed = LuaFile_from_str("") /\ scanned = {}

NoGame == [ root |-> "", exists |-> FALSE, readable |-> FALSE, entries |-> << >> ]

IdlePacks == game = NoGame /\ respect_reserved_names = FALSE /\ packs = NoResult

NoDisk == [ configs |-> EmptyMap, texts |-> EmptyMap, dirs |-> EmptyMap ]

IdleMod ==
    /\ disk = NoDisk
    /\ this_mod = BabaMod_new(NoDisk, "")
    /\ other_mod = BabaMod_new(NoDisk, "")
    /\ compatible = FALSE

(***************************************************************************)
(* merge_files on two parsed scripts.                                      *)
(***************************************************************************)
InitMerge ==
    /\ pc = "merge_files"
    /\ left_file \in { LuaFile_from_str(s) : s \in LeftScripts }
    /\ right_file \in { LuaFile_from_str(s) : s \in RightScripts }
    /\ result = NoResult
    /\ IdleFunc /\ IdleExtract /\ IdleDecl /\ IdleMod
    /\ IdlePatch
    /\ IdleQuery
    /\ IdleMergeMod
    /\ IdleFetch
    /\ IdlePacks
    /\ IdleScript

\* the colliding definitions of the two files
Collisions == definitions(left_file) \cap definitions(right_file)

MergeFiles ==
    /\ pc = "merge_files"
    /\ \E order \in Orders(Collisions) :
          result' = merge_files(left_file, right_file, BabaFuncs, order)
    /\ pc' = "done"
    /\ UNCHANGED << left_file, right_file, funcVars, extractVars, declVars, modVars, patchVars, queryVars, mergeModVars, fetchVars, packVars, scriptVars >>

Init == InitMerge

Next == MergeFiles

Spec == Init /\ [][Next]_vars

(***************************************************************************)
(* The merge of two functions.                                             *)
(***************************************************************************)
InitFunc ==
    /\ pc = "merge_functions"
    /\ left_func \in Funcs
    /\ right_func \in Funcs
    /\ new_func = NoResult
    /\ IdleMerge /\ IdleExtract /\ IdleDecl /\ IdleMod
    /\ IdlePatch
    /\ IdleQuery
    /\ IdleMergeMod
    /\ IdleFetch
    /\ IdlePacks
    /\ IdleScript

MergeOverride ==
    /\ pc = "merge_functions"
    /\ new_func' = merge_override_functions(left_func, right_func, BabaFuncs)
    /\ pc' = "done_override"
    /\ UNCHANGED << left_func, right_func, mergeVars, extractVars, declVars, modVars, patchVars, queryVars, mergeModVars, fetchVars, packVars, scriptVars >>

MergeInjected ==
    /\ pc = "merge_functions"
    /\ new_func' = merge_injected_functions(left_func, right_func)
    /\ pc' = "done_injected"
    /\ UNCHANGED << left_func, right_func, mergeVars, extractVars, declVars, modVars, patchVars, queryVars, mergeModVars, fetchVars, packVars, scriptVars >>

NextFunc == MergeOverride \/ MergeInjected

SpecFunc == InitFunc /\ [][NextFunc]_vars

(***************************************************************************)
(* The extractor: extract, write the bodies out again, extract again.      *)
(***************************************************************************)
InitExtract ==
    /\ pc = "extract"
    /\ source \in Sources
    /\ functions = << >> /\ reserialized = "" /\ functions_again = << >>
    /\ IdleMerge /\ IdleFunc /\ IdleDecl /\ IdleMod
    /\ IdlePatch
    /\ IdleQuery
    /\ IdleMergeMod
    /\ IdleFetch
    /\ IdlePacks
    /\ IdleScript

Extract ==
    /\ pc = "extract"
    /\ functions' = code_to_funcs(source)
    /\ pc' = "reserialize"
    /\ UNCHANGED << source, reserialized, functions_again, mergeVars, funcVars, declVars, modVars, patchVars, queryVars, mergeModVars, fetchVars, packVars, scriptVars >>

\* the code of the bodies in their order, one body per line
RECURSIVE JoinCode(_)
JoinCode(fs) ==
    IF fs = << >> THEN ""
    ELSE IF Len(fs) = 1 THEN fs[1].code
    ELSE fs[1].code \o NL \o JoinCode(Tail(fs))

Reserialize ==
    /\ pc = "reserialize"
    /\ reserialized' = JoinCode(functions)
    /\ pc' = "extract_again"
    /\ UNCHANGED << source, functions, functions_again, mergeVars, funcVars, declVars, modVars, patchVars, queryVars, mergeModVars, fetchVars, packVars, scriptVars >>

ExtractAgain ==
    /\ pc = "extract_again"
    /\ functions_again' = code_to_funcs(reserialized)
    /\ pc' = "done"
    /\ UNCHANGED << source, functions, reserialized, mergeVars, funcVars, declVars, modVars, patchVars, queryVars, mergeModVars, fetchVars, packVars, scriptVars >>

NextExtract == Extract \/ Reserialize \/ ExtractAgain

SpecExtract == InitExtract /\ [][NextExtract]_vars

(***************************************************************************)
(* One function declared in canonical and in assignment style.             *)
(***************************************************************************)
InitDecl ==
    /\ pc = "declare"
    /\ decl \in [ name : DeclNames, args : DeclArgs, body : DeclBodies, is_local : BOOLEAN ]
    /\ by_style = NoStyles
    /\ IdleMerge /\ IdleFunc /\ IdleExtract /\ IdleMod
    /\ IdlePatch
    /\ IdleQuery
    /\ IdleMergeMod
    /\ IdleFetch
    /\ IdlePacks
    /\ IdleScript

ExtractDeclarations ==
    /\ pc = "declare"
    /\ by_style' = [ canonical |-> Range(code_to_funcs(Canonical(decl))),
                     assigned  |-> Range(code_to_funcs(Assigned(decl))) ]
    /\ pc' = "done"
    /\ UNCHANGED << decl, mergeVars, funcVars, extractVars, modVars, patchVars, queryVars, mergeModVars, fetchVars, packVars, scriptVars >>

NextDecl == ExtractDeclarations

SpecDecl == InitDecl /\ [][NextDecl]_vars

(***************************************************************************)
(* Two mods on a disk and the compatibility query.                         *)
(***************************************************************************)
InitMod ==
    /\ pc = "is_compatible_with"
    /\ disk \in Disks
    /\ this_mod \in { BabaMod_new(disk, p) : p \in { "w1/Lua/moda", "w1/Lua/a.lua" } }
    /\ other_mod \in { BabaMod_new(disk, p) : p \in { "w1/Lua/modb", "w2/Lua/modb" } }
    /\ compatible = FALSE
    /\ IdleMerge /\ IdleFunc /\ IdleExtract /\ IdleDecl
    /\ IdlePatch
    /\ IdleQuery
    /\ IdleMergeMod
    /\ IdleFetch
    /\ IdlePacks
    /\ IdleScript

IsCompatibleWith ==
    /\ pc = "is_compatible_with"
    /\ compatible' = is_compatible_with(disk, this_mod, other_mod)
    /\ pc' = "done"
    /\ UNCHANGED << disk, this_mod, other_mod, mergeVars, funcVars, extractVars, declVars, patchVars, queryVars, mergeModVars, fetchVars, packVars, scriptVars >>

\* merge_with of the two mods, before or after they are compared
MergeWith ==
    /\ pc \in { "is_compatible_with", "done" }
    /\ merged = NoMerged
    /\ merged' = merge_with(this_mod, other_mod, Range(BabaFuncs))
    /\ UNCHANGED << pc, modVars, mergeVars, funcVars, extractVars, declVars, patchVars, queryVars, fetchVars, packVars, scriptVars >>

NextMod == IsCompatibleWith \/ MergeWith

SpecMod == InitMod /\ [][NextMod]_vars

(***************************************************************************)
(* The end of merge_functions_via_dmp on what patch_apply can return: a    *)
(* text and one flag per patch, a flag being false when the patch found    *)
(* no place to apply.                                                      *)
(***************************************************************************)
MaxFlags == 2

\* the texts patch_apply is taken to return: the code of every function,
\* and a text that is no function
PatchTexts == { f.code : f \in Funcs } \cup { "", "foo()" }

FlagLists == UNION { [ 1..n -> BOOLEAN ] : n \in 0..MaxFlags }

InitPatch ==
    /\ pc = "patch_apply"
    /\ applied \in [ text : PatchTexts, flags : FlagLists ]
    /\ IdleMerge /\ IdleFunc /\ IdleExtract /\ IdleDecl /\ IdleMod
    /\ IdleQuery
    /\ IdleMergeMod
    /\ IdleFetch
    /\ IdlePacks
    /\ IdleScript

CheckFlags ==
    /\ pc = "patch_apply"
    /\ new_func' = check_flags(applied)
    /\ pc' = "done_patch"
    /\ UNCHANGED << left_func, right_func, mergeVars, extractVars, declVars, modVars, patchVars, queryVars, mergeModVars, fetchVars, packVars, scriptVars >>

NextPatch == CheckFlags

SpecPatch == InitPatch /\ [][NextPatch]_vars

(***************************************************************************)
(* The queries of a mod descriptor while the files of the mod change on    *)
(* disk: the descriptor is built once, the scripts, the manifest and the   *)
(* sprite directory are then rewritten by others between the queries.      *)
(***************************************************************************)
QueryConfigs == [ files : { << >>, << "main.lua" >> }, sprites : { << >>, << "keke" >> } ]

QueryScripts ==
    { MapOf({ "w1/Lua/a.lua" }, "function helper()\nfoo()\nend") }
    \cup { Merge2(MapOf({ "main.lua" }, text),
                  MapOf({ "w1/Lua/a.lua" }, "function helper()\nfoo()\nend")) :
             text \in { "function init(a)\nend", "function helper()\nend" } }

QueryDisks ==
    [ configs : { EmptyMap } \cup { MapOf({ "w1/Lua/moda/Config.json" }, c) : c \in QueryConfigs },
      texts   : QueryScripts,
      dirs    : { EmptyMap } \cup { MapOf({ "w1/Sprites" }, names) :
                                      names \in { {}, { "keke_0_1.png" } } } ]

InitQuery ==
    /\ pc = "constructed"
    /\ disk \in QueryDisks
    /\ this_mod \in { BabaMod_new(disk, p) : p \in { "w1/Lua/moda", "w1/Lua/a.lua" } }
    /\ other_mod = BabaMod_new(NoDisk, "")
    /\ compatible = FALSE
    /\ IdleQuery
    /\ IdleMerge /\ IdleFunc /\ IdleExtract /\ IdleDecl /\ IdlePatch
    /\ IdleMergeMod
    /\ IdleFetch
    /\ IdlePacks
    /\ IdleScript

\* a script of the mod is written, created or removed by somebody else
WriteScript ==
    /\ \E texts \in QueryScripts \ { disk.texts } : disk' = [ disk EXCEPT !.texts = texts ]
    /\ pc' = "changed"
    /\ functions_defined' = {} /\ sprites_defined' = {}
    /\ UNCHANGED << this_mod, other_mod, compatible, mergeVars, funcVars, extractVars, declVars, patchVars, mergeModVars, fetchVars, packVars, scriptVars >>

\* the manifest of the mod is written, created or removed by somebody else
WriteManifest ==
    /\ \E d \in QueryDisks :
          /\ d.configs # disk.configs
          /\ disk' = [ disk EXCEPT !.configs = d.configs ]
    /\ pc' = "changed"
    /\ functions_defined' = {} /\ sprites_defined' = {}
    /\ UNCHANGED << this_mod, other_mod, compatible, mergeVars, funcVars, extractVars, declVars, patchVars, mergeModVars, fetchVars, packVars, scriptVars >>

\* the sprite directory is filled, emptied, created or removed
ChangeSprites ==
    /\ \E d \in QueryDisks :
          /\ d.dirs # disk.dirs
          /\ disk' = [ disk EXCEPT !.dirs = d.dirs ]
    /\ pc' = "changed"
    /\ functions_defined' = {} /\ sprites_defined' = {}
    /\ UNCHANGED << this_mod, other_mod, compatible, mergeVars, funcVars, extractVars, declVars, patchVars, mergeModVars, fetchVars, packVars, scriptVars >>

DefinedFunctionDefinitions ==
    /\ pc \in { "constructed", "changed", "defined_sprites" }
    /\ functions_defined' = defined_function_definitions(disk, this_mod)
    /\ pc' = "defined_function_definitions"
    /\ UNCHANGED << sprites_defined, modVars, mergeVars, funcVars, extractVars, declVars, patchVars, mergeModVars, fetchVars, packVars, scriptVars >>

DefinedSprites ==
    /\ pc \in { "constructed", "changed", "defined_function_definitions" }
    /\ sprites_defined' = defined_sprites(this_mod)
    /\ pc' = "defined_sprites"
    /\ UNCHANGED << functions_defined, modVars, mergeVars, funcVars, extractVars, declVars, patchVars, mergeModVars, fetchVars, packVars, scriptVars >>

NextQuery ==
    \/ WriteScript
    \/ WriteManifest
    \/ ChangeSprites
    \/ DefinedFunctionDefinitions
    \/ DefinedSprites

SpecQuery == InitQuery /\ [][NextQuery]_vars

(***************************************************************************)
(* fetch_field on the lines of a world_data.txt.                           *)
(***************************************************************************)
FieldNames == { "name", "mods", "" }

\* lines put together from a left side, a separator or none, a right side
FieldLines ==
    { lhs \o sep \o rhs :
        lhs \in { "name", "mods", "nam", "" },
        sep \in { "", "=" },
        rhs \in { "abc", "1", "0", "+1", "-1", "", "a=b", "12", "1 " } }

InitFetch ==
    /\ pc = "fetch_field"
    /\ field \in FieldNames
    /\ data \in FieldLines
    /\ target \in { "String", "usize" }
    /\ fetched = NoResult
    /\ IdleMerge /\ IdleFunc /\ IdleExtract /\ IdleDecl /\ IdleMod /\ IdlePatch
    /\ IdleQuery /\ IdleMergeMod
    /\ IdlePacks
    /\ IdleScript

FetchField ==
    /\ pc = "fetch_field"
    /\ fetched' = fetch_field(target, field, data)
    /\ pc' = "done_fetch"
    /\ UNCHANGED << field, data, target, mergeVars, funcVars, extractVars, declVars, modVars, patchVars, queryVars, mergeModVars, packVars, scriptVars >>

NextFetch == FetchField

SpecFetch == InitFetch /\ [][NextFetch]_vars

(***************************************************************************)
(* levelpacks on a game folder.                                            *)
(***************************************************************************)
\* Data/Worlds holds at most this many entries
MaxEntries == 2

\* a reserved pack, a pack of the user and a stray file; a folder may lack
\* its world_data.txt
WorldEntries ==
    [ name : { "baba", "levels", "mypack" }, world_data : BOOLEAN ]
    \cup { [ name |-> "notes.txt", world_data |-> FALSE ] }

\* the listings of Data/Worlds: no name twice
WorldListings ==
    { l \in UNION { [ 1..n -> WorldEntries ] : n \in 0..MaxEntries } :
        \A i, j \in DOMAIN l : l[i].name = l[j].name => i = j }

Games ==
    { [ root |-> "/game", exists |-> TRUE, readable |-> TRUE, entries |-> l ] :
        l \in WorldListings }
    \cup { [ root |-> "/game", exists |-> TRUE, readable |-> FALSE, entries |-> << >> ],
           [ root |-> "/game", exists |-> FALSE, readable |-> FALSE, entries |-> << >> ] }

InitPacks ==
    /\ pc = "levelpacks"
    /\ game \in Games
    /\ respect_reserved_names \in BOOLEAN
    /\ packs = NoResult
    /\ IdleMerge /\ IdleFunc /\ IdleExtract /\ IdleDecl /\ IdleMod /\ IdlePatch
    /\ IdleQuery /\ IdleMergeMod /\ IdleFetch
    /\ IdleScript

Levelpacks ==
    /\ pc = "levelpacks"
    /\ packs' = levelpacks(game, respect_reserved_names)
    /\ pc' = "done_levelpacks"
    /\ UNCHANGED << game, respect_reserved_names, mergeVars, funcVars, extractVars, declVars, modVars, patchVars, queryVars, mergeModVars, fetchVars, scriptVars >>

NextPacks == Levelpacks

SpecPacks == InitPacks /\ [][NextPacks]_vars

(***************************************************************************)
(* A script is parsed into a LuaFile, then scanned for its definitions.    *)
(***************************************************************************)
\* a script holds at most this many lines
MaxLines == 3

\* alias lines of two built-in names, a call of a built-in, the head and
\* the end of a function
ScriptLines ==
    { "local old = update", "old2 = update", "update()", "init = update",
      "function update()", "end" }

RECURSIVE JoinLines(_)
JoinLines(ls) ==
    IF ls = << >> THEN ""
    ELSE IF Len(ls) = 1 THEN ls[1]
    ELSE ls[1] \o NL \o JoinLines(Tail(ls))

ScriptTexts == { JoinLines(ls) : ls \in UNION { [ 1..n -> ScriptLines ] : n \in 0..MaxLines } }

InitScript ==
    /\ pc = "from_str"
    /\ script \in ScriptTexts
    /\ parsed = LuaFile_from_str("")
    /\ scanned = {}
    /\ IdleMerge /\ IdleFunc /\ IdleExtract /\ IdleDecl /\ IdleMod /\ IdlePatch
    /\ IdleQuery /\ IdleMergeMod /\ IdleFetch /\ IdlePacks

ParseScript ==
    /\ pc = "from_str"
    /\ parsed' = LuaFile_from_str(script)
    /\ pc' = "parsed"
    /\ UNCHANGED << script, scanned, mergeVars, funcVars, extractVars, declVars, modVars, patchVars, queryVars, mergeModVars, fetchVars, packVars >>

ScanScript ==
    /\ pc = "parsed"
    /\ scanned' = functions_from_string(script)
    /\ pc' = "scanned"
    /\ UNCHANGED << script, parsed, mergeVars, funcVars, extractVars, declVars, modVars, patchVars, queryVars, mergeModVars, fetchVars, packVars >>

NextScript == ParseScript \/ ScanScript

SpecScript == InitScript /\ [][NextScript]_vars

(***************************************************************************)
(* Properties.                                                             *)
(***************************************************************************)
\* a is a subsequence of b
RECURSIVE IsSubsequence(_, _)
IsSubsequence(a, b) ==
    IF a = "" THEN TRUE
    ELSE IF b = "" THEN FALSE
    ELSE IF Char(a, 1) = Char(b, 1) THEN IsSubsequence(From(a, 2), From(b, 2))
    ELSE IsSubsequence(a, From(b, 2))

\* s with every run of line breaks reduced to its first line break
OneBreakPerRun(s) ==
    concat_all([ i \in 1..Len(s) |->
        IF i > 1 /\ Char(s, i) = NL /\ Char(s, i - 1) = NL THEN "" ELSE Char(s, i) ])

\* the source text of a function: from the `function` keyword after which
\* the piece starts to the first flush-left `end` of the piece
SourceSpan(piece) ==
    "function" \o split(piece, "\nend")[1] \o (IF contains(piece, "\nend") THEN "\nend" ELSE "")

\* the source texts of the functions that the extractor finds in s
FunctionSpans(s) ==
    LET pieces == split(s, "function") IN
    { SourceSpan(pieces[i]) :
        i \in { j \in 2..Len(pieces) : LuaFunction_from_str(Reassemble(pieces[j])).ok } }

IdentChars == "abcdefghijklmnopqrstuvwxyzABCDEFGHIJKLMNOPQRSTUVWXYZ0123456789_"

IsIdentChar(c) == contains(IdentChars, c)

\* name occurs in s as a whole identifier
IdentOccurs(s, name) ==
    \E i \in Occurrences(s, name) :
        /\ (i > 1 => ~IsIdentChar(Char(s, i - 1)))
        /\ (i + Len(name) <= Len(s) => ~IsIdentChar(Char(s, i + Len(name))))

Defines(code, name) == \E f \in Range(code_to_funcs(code)) : f.definition.name = name

Merged == pc = "done" /\ result.ok

C3_RenamedBoth ==
    Merged =>
        \A func \in Collisions : ~func.is_baba_native =>
            /\ Defines(result.loop.left, func.name \o LEFT_HAND_SUFFIX)
            /\ Defines(result.loop.right, func.name \o RIGHT_HAND_SUFFIX)
            /\ ~IdentOccurs(result.loop.left, func.name)
            /\ ~IdentOccurs(result.loop.right, func.name)

\* the colliding native names for which exactly one file uses injection
MixedCollisions ==
    { func \in Collisions :
        /\ func.is_baba_native
        /\ function_uses_injection(left_file, func) # function_uses_injection(right_file, func) }

\* the section a mixed merge is to emit for func
MixedSection(func) ==
    LET left_inj == function_uses_injection(left_file, func)
        injected == IF left_inj THEN left_file ELSE right_file
        other    == IF left_inj THEN right_file ELSE left_file
    IN  from_definition_and_code(func, other.code).val.code
            \o NL \o "local " \o injected.renamed_functions[func.name] \o " = " \o func.name
            \o NL \o from_definition_and_code(func, injected.code).val.code

\* C5: after a successful merge, for every colliding native name that
\* exactly one side injects, the output holds the other side's function
\* code, then the line `local <alias> = <name>`, then the injecting side's
\* function code.
C5_MixedSection ==
    Merged =>
        \A func \in MixedCollisions :
            /\ func.name \in DOMAIN left_file.renamed_functions
                                \cup DOMAIN right_file.renamed_functions
            /\ contains(result.val.code, MixedSection(func))

\* the action the table prescribes for a colliding definition
TableAction(func) ==
    IF ~func.is_baba_native THEN "rename"
    ELSE IF function_uses_injection(left_file, func) # function_uses_injection(right_file, func)
         THEN "mixed"
    ELSE IF function_uses_injection(left_file, func) THEN "injection"
    ELSE "override"

\* C6: merge_files returns a file only if every colliding definition was
\* resolved by the action the table prescribes for it; no colliding
\* definition is skipped.
C6_AllResolved ==
    Merged =>
        \A func \in Collisions :
            \E i \in DOMAIN result.loop.log :
                result.loop.log[i] = [name |-> func.name, action |-> TableAction(func)]

\* the original of a definition in the corpus
HasOriginal(def) == \E f \in Range(BabaFuncs) : f.definition = def

Original(def) == CHOOSE f \in Range(BabaFuncs) : f.definition = def

\* C2: for a name with an original in the corpus, the override merge fails
\* with CodeRemoval exactly when the diff of the original against the left
\* or against the right candidate holds a delete; a candidate that lacks
\* some of the original's characters always fails this way, and the failure
\* carries no function.
C2_CodeRemoval ==
    (pc = "done_override" /\ HasOriginal(left_func.definition)) =>
        LET original == Original(left_func.definition).code IN
        /\ new_func = Err("CodeRemoval")
              <=> \/ HasDelete(diff_main(original, left_func.code))
                  \/ HasDelete(diff_main(original, right_func.code))
        /\ (~IsSubsequence(original, left_func.code) \/ ~IsSubsequence(original, right_func.code))
              => new_func = Err("CodeRemoval")

C2_Witness ==
    /\ pc = "done_override"
    /\ HasOriginal(left_func.definition)
    /\ right_func.definition = left_func.definition
    /\ IsSubsequence(Original(left_func.definition).code, left_func.code)
    /\ new_func = Err("CodeRemoval")

\* C4: when the diff/patch merge of two functions succeeds, the left code
\* and the right code are each a subsequence of the merged code.
C4_KeepsBoth ==
    (pc \in { "done_override", "done_injected" } /\ new_func.ok) =>
        /\ IsSubsequence(left_func.code, new_func.val.code)
        /\ IsSubsequence(right_func.code, new_func.val.code)

\* C7: is_compatible_with is true exactly when the defined-function sets
\* of the two mods are disjoint and the sprite sets their manifests declare
\* are disjoint.
C7_Compatible ==
    pc = "done" =>
        compatible
            <=> /\ defined_function_definitions(disk, this_mod)
                       \cap defined_function_definitions(disk, other_mod) = {}
                /\ defined_sprites(this_mod) \cap defined_sprites(other_mod) = {}

\* C8: the scenario source extracts to the one function init whose code is
\* the source, and the code of every extracted function is its source text
\* from `function` to the first flush-left `end`, line breaks included.
C8_VerbatimCode ==
    pc # "extract" =>
        /\ source = ScenarioSource =>
              functions = << [ definition |-> [ name |-> "init", is_baba_native |-> TRUE ],
                               code |-> ScenarioSource ] >>
        /\ \A i \in DOMAIN functions : functions[i].code \in FunctionSpans(source)

\* C9: extracting, writing the bodies out in order and extracting again
\* yields the definitions of the first extraction.
C9_RoundTrip ==
    pc = "done" =>
        { functions_again[i].definition : i \in DOMAIN functions_again }
            = { functions[i].definition : i \in DOMAIN functions }

\* C10: a function declared in assignment style extracts to the same
\* definition as its canonical declaration.
C10_SameDefinition ==
    pc = "done" =>
        { f.definition : f \in by_style.assigned } = { f.definition : f \in by_style.canonical }

\* the place of the first function of a name in the functions of a file
FirstSeen(file, name) ==
    CHOOSE i \in DOMAIN file.functions :
        /\ file.functions[i].definition.name = name
        /\ \A j \in DOMAIN file.functions :
              file.functions[j].definition.name = name => i <= j

\* what a caller of merge_files sees: the file, or the error
Outcome(res) == IF res.ok THEN Ok(res.val) ELSE Err(res.err)

\* C11: for fixed inputs merge_files returns one outcome, whatever the order
\* in which the collisions are processed, and the merged fragments follow
\* the order in which the colliding names are first defined in the left
\* source.
C11_Deterministic ==
    pc = "done" =>
        /\ \A order \in Orders(Collisions) :
              Outcome(merge_files(left_file, right_file, BabaFuncs, order)) = Outcome(result)
        /\ \A i, j \in DOMAIN result.loop.log :
              (i < j /\ result.loop.log[i].action \in { "mixed", "override", "injection" }
                     /\ result.loop.log[j].action \in { "mixed", "override", "injection" })
                  => FirstSeen(left_file, result.loop.log[i].name)
                         < FirstSeen(left_file, result.loop.log[j].name)

\* C12: when the corpus holds no function with the left definition, the
\* override merge returns NotABabaFunction, whatever the two codes are; it
\* returns neither CodeRemoval nor a function then.
C12_NotABabaFunction ==
    (pc = "done_override" /\ ~HasOriginal(left_func.definition)) =>
        new_func = Err("NotABabaFunction")

C12_Witness ==
    /\ pc = "done_override"
    /\ ~HasOriginal(left_func.definition)
    /\ right_func.definition = left_func.definition
    /\ right_func.code # left_func.code
    /\ HasDelete(diff_main(left_func.code, right_func.code))
    /\ new_func = Err("NotABabaFunction")

\* the file that uses injection in the mixed merge of func
Injecting(func) == IF function_uses_injection(left_file, func) THEN left_file ELSE right_file

\* C13: a mixed merge of a native name ends merge_files with RenameError
\* exactly when the injecting file holds no alias under that name as a key;
\* no file is returned then.  A mixed merge that fails is the last thing
\* the loop does.
C13_RenameError ==
    pc = "done" =>
        /\ \A i \in DOMAIN result.loop.log : result.loop.log[i].action = "mixed" =>
              \A func \in MixedCollisions : func.name = result.loop.log[i].name =>
                  (func.name \notin DOMAIN Injecting(func).renamed_functions)
                      <=> (i = Len(result.loop.log) /\ result = [ ok |-> FALSE,
                              err |-> "RenameError", loop |-> result.loop ])
        /\ (~result.ok /\ result.err = "RenameError") =>
              /\ result.loop.log # << >>
              /\ result.loop.log[Len(result.loop.log)].action = "mixed"
        /\ \A i \in DOMAIN result.loop.log : result.loop.log[i].action = "mixed" =>
              \E func \in MixedCollisions : func.name = result.loop.log[i].name

C13_Witness ==
    /\ pc = "done"
    /\ ~result.ok /\ result.err = "RenameError"
    /\ \E func \in MixedCollisions :
          /\ func.name \notin DOMAIN Injecting(func).renamed_functions
          /\ function_uses_injection(Injecting(func), func)

\* C14: the diff/patch merge returns a function only when every flag of
\* patch_apply is true; with a false flag it returns IncompletePatching,
\* whatever the patched text is.
C14_IncompletePatching ==
    pc = "done_patch" =>
        /\ (\E i \in DOMAIN applied.flags : ~applied.flags[i])
              => new_func = Err("IncompletePatching")
        /\ new_func.ok => \A i \in DOMAIN applied.flags : applied.flags[i]

C14_Witness ==
    /\ pc = "done_patch"
    /\ \E i, j \in DOMAIN applied.flags : applied.flags[i] /\ ~applied.flags[j]
    /\ LuaFunction_from_str(applied.text).ok
    /\ new_func = Err("IncompletePatching")

\* the files the held manifest lists, none without a manifest
ManifestFiles(mod) == IF mod.config.ok THEN Range(mod.config.val.files) ELSE {}

\* the definitions of the scripts among the paths that can be read
DefinitionsIn(paths) ==
    UNION { functions_from_string(disk.texts[f]) :
              f \in { g \in paths : is_lua_file(g) /\ g \in DOMAIN disk.texts } }

\* C15: the definitions a mod answers are the union of the definitions of
\* its own script and of every script its manifest lists; a file that
\* cannot be read and a sprite directory that is missing take nothing away
\* from the definitions of the other files.
C15_UnionOfScripts ==
    pc = "defined_function_definitions" =>
        functions_defined = DefinitionsIn({ this_mod.path } \cup ManifestFiles(this_mod))

\* the names of the files in the sprite directory of the mod, none when
\* the directory cannot be read
SpriteFiles(mod) == unwrap_or_default(read_dir(disk, sprites_folder(mod)))

\* C16: the sprites a mod answers are the sprite names of its manifest that
\* some file of its sprite directory holds in its name; a declared sprite
\* without such a file is left out, and without a manifest the set is empty.
C16_SpritesPresent ==
    pc = "defined_sprites" =>
        sprites_defined =
            IF this_mod.config.ok
            THEN { name \in Range(this_mod.config.val.sprites) :
                     \E file \in SpriteFiles(this_mod) : contains(file, name) }
            ELSE {}

\* C17: whatever was rewritten on disk since the descriptor was built, its
\* queries answer what a descriptor built now at the same path answers.
C17_NeverCached ==
    /\ pc = "defined_function_definitions" =>
          functions_defined
              = defined_function_definitions(disk, BabaMod_new(disk, this_mod.path))
    /\ pc = "defined_sprites" =>
          sprites_defined = defined_sprites(BabaMod_new(disk, this_mod.path))

\* C18: merge_with of two mods ends by returning, a merged mod or an
\* error; it never ends in a panic.
C18_MergeReturns == merged # NoMerged => merged.kind = "returned"

\* the positions of `=` in the line
EqualSigns == { i \in 1..Len(data) : Char(data, i) = "=" }

FirstEqualSign == CHOOSE i \in EqualSigns : \A j \in EqualSigns : i <= j

C20_NeverEmpty ==
    pc = "done_levelpacks" =>
        /\ packs.ok => packs.val # << >>
        /\ ( /\ game.exists /\ game.readable
             /\ \A i \in DOMAIN game.entries : ~game.entries[i].world_data )
              => packs = Err("NoLevelpacksFound")

\* the colliding definition a log entry is about
LoggedFunc(entry) == CHOOSE func \in Collisions : func.name = entry.name

\* C21: every colliding name gets exactly one action, the one the table
\* gives for (native, left injects, right injects): rename, override,
\* injection or mixed; an injection merge never fails with
\* NotABabaFunction or CodeRemoval.
C21_ActionByTable ==
    pc = "done" =>
        /\ \A i \in DOMAIN result.loop.log :
              /\ \E func \in Collisions : func.name = result.loop.log[i].name
              /\ result.loop.log[i].action = TableAction(LoggedFunc(result.loop.log[i]))
              /\ \A j \in DOMAIN result.loop.log :
                    result.loop.log[j].name = result.loop.log[i].name => i = j
        /\ result.ok =>
              \A func \in Collisions :
                  \E i \in DOMAIN result.loop.log : result.loop.log[i].name = func.name
        /\ ( /\ ~result.ok
             /\ result.loop.log # << >>
             /\ result.loop.log[Len(result.loop.log)].action = "injection" )
              => result.err \notin { "NotABabaFunction", "CodeRemoval" }

\* the names for which a merged fragment was emitted
MergedNames ==
    { result.loop.log[i].name :
        i \in { j \in DOMAIN result.loop.log :
                  result.loop.log[j].action \in { "override", "injection", "mixed" } } }

\* C22: in a successful output the part before the merged section is what
\* is left of the left script and the part after it what is left of the
\* right script, and neither still holds a function that was merged: the
\* bodies of the merged native functions are in the merged section only.
C22_BodiesMoved ==
    Merged =>
        /\ result.val.code
              = CollapseBreaks(result.loop.left \o NL \o result.loop.merged
                                   \o NL \o result.loop.right)
        /\ \A name \in MergedNames :
              /\ ~Defines(result.loop.left, name)
              /\ ~Defines(result.loop.right, name)

\* the lines of a text that are not empty
RECURSIVE FullLines(_)
FullLines(ls) ==
    IF ls = << >> THEN << >>
    ELSE (IF Head(ls) = "" THEN << >> ELSE << Head(ls) >>) \o FullLines(Tail(ls))

\* the lines of the fragments, fragment after fragment
RECURSIVE FragmentLines(_)
FragmentLines(fragments) ==
    IF fragments = << >> THEN << >>
    ELSE FullLines(split(Head(fragments), NL)) \o FragmentLines(Tail(fragments))

\* C23: in the assembled text every merged fragment starts on a line of
\* its own and ends on a line of its own: the lines of the merged section
\* are the lines of the fragments, no line holds the end of one fragment
\* and the start of the next.
C23_FragmentsApart ==
    Merged =>
        FullLines(split(result.loop.merged, NL)) = FragmentLines(result.loop.fragments)

IsIdentifier(word) == word # "" /\ \A i \in 1..Len(word) : IsIdentChar(Char(word, i))

\* the line has the form `[local ]alias = original`
IsAliasLine(line, alias, original) ==
    /\ IsIdentifier(alias)
    /\ ~contains(line, "function")
    /\ line \in { alias \o " = " \o original, "local " \o alias \o " = " \o original }

\* C24: a parsed script holds renamed_functions[o] = a only if one of its
\* lines has the form `[local ]a = o`; a line that mentions a built-in
\* name otherwise, as a call does, records nothing.
C24_AliasLinesOnly ==
    pc # "from_str" =>
        \A original \in DOMAIN parsed.renamed_functions :
            \E line \in Range(lines(script)) :
                IsAliasLine(line, parsed.renamed_functions[original], original)

\* C25: in a parsed script no name is both a key and a value of
\* renamed_functions.
C25_KeysApartFromValues ==
    pc # "from_str" =>
        DOMAIN parsed.renamed_functions \cap Range(parsed.renamed_functions) = {}

\* the places of the lines of the script that alias original
AliasLinesOf(original) ==
    { i \in DOMAIN lines(script) :
        \E alias \in { AliasOf(lines(script)[i]) } : IsAliasLine(lines(script)[i], alias, original) }

\* the places of the lines that mention original outside a function head
MentionsOf(original) ==
    { i \in DOMAIN lines(script) :
        contains(lines(script)[i], original) /\ ~contains(lines(script)[i], "function") }

\* C26: when the lines that mention a built-in name are alias lines of it,
\* and there are several, the alias recorded is the one of the first.
C26_FirstAliasKept ==
    pc # "from_str" =>
        \A original \in baba_function_names :
            (AliasLinesOf(original) # {} /\ MentionsOf(original) = AliasLinesOf(original)) =>
                /\ original \in DOMAIN parsed.renamed_functions
                /\ parsed.renamed_functions[original]
                      = AliasOf(lines(script)[CHOOSE i \in AliasLinesOf(original) :
                                                \A j \in AliasLinesOf(original) : i <= j])

\* the longest identifier at the start of a text
RECURSIVE LeadingIdentifier(_)
LeadingIdentifier(text) ==
    IF text = "" \/ ~IsIdentChar(Char(text, 1)) THEN ""
    ELSE Char(text, 1) \o LeadingIdentifier(From(text, 2))

\* the names that follow an occurrence of `function` and a space in s
NamesAfterFunction(s) ==
    { LeadingIdentifier(From(s, i + Len("function "))) : i \in Occurrences(s, "function ") }
        \ { "" }

\* C27: every extracted function is named by the token that follows an
\* occurrence of `function` in the source, and there are no more functions
\* than occurrences: neither the text before the first `function` nor a
\* `function` without a name yields one.
C27_NamedAfterFunction ==
    pc # "extract" =>
        /\ \A i \in DOMAIN functions :
              functions[i].definition.name \in NamesAfterFunction(source)
        /\ Len(functions) <= Cardinality(Occurrences(source, "function"))

\* the colliding names that were renamed
RenamedNames ==
    { result.loop.log[i].name :
        i \in { j \in DOMAIN result.loop.log : result.loop.log[j].action = "rename" } }

\* text with every occurrence of name as a whole identifier, from place i
\* on, replaced by to
RECURSIVE ReplaceIdentifier(_, _, _, _)
ReplaceIdentifier(text, i, name, to) ==
    IF i > Len(text) THEN ""
    ELSE IF /\ i + Len(name) - 1 <= Len(text)
            /\ SubSeq(text, i, i + Len(name) - 1) = name
            /\ (i > 1 => ~IsIdentChar(Char(text, i - 1)))
            /\ (i + Len(name) <= Len(text) => ~IsIdentChar(Char(text, i + Len(name))))
         THEN to \o ReplaceIdentifier(text, i + Len(name), name, to)
         ELSE Char(text, i) \o ReplaceIdentifier(text, i + 1, name, to)

\* text with the identifiers of the given names given the suffix
RECURSIVE WithSuffix(_, _, _)
WithSuffix(text, names, suffix) ==
    IF names = {} THEN text
    ELSE LET name == CHOOSE n \in names : TRUE IN
         WithSuffix(ReplaceIdentifier(text, 1, name, name \o suffix), names \ { name }, suffix)

\* C28: the renames of a merge change the identifiers equal to a renamed
\* name and nothing else: the left and the right text the output is made
\* of are the scripts with those identifiers suffixed, so that a function
\* with another name keeps its name, and a word that contains a renamed
\* name as a part stays as it is.
C28_RenameFrame ==
    (Merged /\ RenamedNames # {} /\ MergedNames = {}) =>
        /\ result.loop.left = WithSuffix(left_file.code, RenamedNames, LEFT_HAND_SUFFIX)
        /\ result.loop.right = WithSuffix(right_file.code, RenamedNames, RIGHT_HAND_SUFFIX)

\* C29: the scan of a script text for definitions and the full extraction
\* agree: functions_from_string of the text is the set of definitions of
\* the LuaFile parsed from it.
C29_ScanAgrees == pc = "scanned" => scanned = definitions(parsed)

\* the names of the functions a text defines
DefinedNames(text) == { f.definition.name : f \in Range(code_to_funcs(text)) }

====
